---- MODULE Spec2Model ----
(***************************************************************************)
(* squidpy.im.segment: the orchestration of segment() (backend selection,  *)
(* per-crop segmentation, label reconciliation, stitching, add_img), the   *)
(* blob backend's dispatch, and segment_crops().                           *)
(*                                                                         *)
(* Three specifications:                                                   *)
(*   Spec       one call of segment() on an Image container, step by step  *)
(*   SpecRec    the reconciliation loop of segment() (lines 248-254) on    *)
(*              arbitrary non-negative per-crop label arrays               *)
(*   SpecCrops  segment_crops() on arbitrary finished label arrays         *)
(***************************************************************************)
EXTENDS Integers, Sequences, FiniteSets, TLC

VARIABLES
    args,                \* the arguments of the segment() call
    data,                \* img.data: layer name -> layer
    data0,               \* history: img.data when segment() was called
    pc,                  \* position inside segment()
    err,                 \* the exception that ended segment(), or "none"
    segmentation_model,  \* the constructed backend (class, self.model)
    tiles,               \* the crops crop_equally returned
    raw,                 \* history: the label arrays as the backend returned them
    crops,               \* the list `crops` after line 244, reconciled in place
    counter,             \* the running counter of the reconciliation loop
    i,                   \* the loop index of the reconciliation loop (1-based)
    img_segmented,       \* the result of uncrop_img
    calls,               \* the calls made to collaborators, in order
    segmented,           \* segment_crops: img.data[segmented_img_id], rows x cols
    returned,            \* segment_crops: the crop_center requests, in order
    scpc                 \* segment_crops: "start" or "done"

vars == <<args, data, data0, pc, err, segmentation_model, tiles, raw, crops,
          counter, i, img_segmented, calls, segmented, returned, scpc>>

segmentVars == <<args, data, data0, pc, err, segmentation_model, tiles, raw,
                 crops, counter, i, img_segmented, calls>>

cropsVars == <<segmented, returned, scpc>>

----------------------------------------------------------------------------
(* Bounds *)

\* crop_equally returns between 1 and MaxCrops crops (Spec)
MaxCrops == 3
\* the reconciliation loop is given between 1 and MaxRecCrops label arrays (SpecRec)
MaxRecCrops == 2
\* pixels of one crop's label array
CropLen == 2
\* largest local label a backend returns
MaxLabel == 2
\* shape of the finished label array handed to segment_crops (SpecCrops)
ImgRows == 2
ImgCols == 2

----------------------------------------------------------------------------
(* Values *)

None == "None"

\* an object that is an instance of the keras model type
KerasModel == "<keras Model>"

\* SegmentationBackend: the three selectors segment() dispatches on
BLOB == "blob"

WATERSHED == "watershed"

TENSORFLOW == "tensorflow"

SegmentationBackend == {BLOB, WATERSHED, TENSORFLOW}

\* the names SegmentationModelBlob._segment recognises
BlobMethods == {"log", "dog", "doh"}

Min(a, b) == IF a <= b THEN a ELSE b

Range(f) == {f[p] : p \in DOMAIN f}

\* the label arrays of one crop: CropLen pixels, 0 = background
LabelArrays == [1..CropLen -> 0..MaxLabel]

\* "By convention, segments are numbered from 1..number of segments within each crop"
DenseLabels(n) == [p \in 1..CropLen |-> IF p <= n THEN p ELSE 0]

\* what a backend returns for one crop in Spec: a densely numbered label array
SegmentOutputs == {DenseLabels(n) : n \in 0..Min(CropLen, MaxLabel)}

\* the call arguments enumerated: model_group, model_instance, model_kwargs (invert),
\* channel_idx, key_added; img_id is the layer "image"
InstancesFor(g) ==
    CASE g = BLOB       -> {None, "log", "dog", "doh", "blobs"}
      [] g = WATERSHED  -> {None}
      [] g = TENSORFLOW -> {None, "log", KerasModel}
      [] OTHER          -> {None}

Inputs ==
    {a \in [model_group : SegmentationBackend \cup {"nonsense"},
            model_instance : {None, "log", "dog", "doh", "blobs", KerasModel},
            invert : BOOLEAN,
            channel_idx : {None, "0"},
            key_added : {None, "seg", "image"},
            img_id : {"image"}] :
        a.model_instance \in InstancesFor(a.model_group)}

\* layers of the container
Absent == [kind |-> "absent", px |-> <<>>]

SourceLayer(name) == [kind |-> name, px |-> <<>>]

LabelLayer(px) == [kind |-> "labels", px |-> px]

LayerNames ==
    {"image", "other", "seg"} \cup {"segmented_" \o g : g \in SegmentationBackend}

\* the containers segment() is called on: a fresh one, and one that already holds
\* layers under the output names (earlier segment() calls)
Containers ==
    { [n \in LayerNames |->
          IF n \in {"image", "other"} THEN SourceLayer(n)
          ELSE IF used THEN LabelLayer(<<0>>) ELSE Absent] : used \in BOOLEAN }

NoModel == [cls |-> "none", model |-> None]

Call(fn, tile, arg) == [fn |-> fn, tile |-> tile, arg |-> arg]

----------------------------------------------------------------------------
(* segment(), lines 230-258 *)

Init ==
    /\ args \in Inputs
    /\ data \in Containers
    /\ data0 = data
    /\ pc = "resolve"
    /\ err = "none"
    /\ segmentation_model = NoModel
    /\ tiles = <<>>
    /\ raw = <<>>
    /\ crops = <<>>
    /\ counter = 0
    /\ i = 0
    /\ img_segmented = <<>>
    /\ calls = <<>>
    /\ segmented = <<>>
    /\ returned = <<>>
    /\ scpc = "unused"

\* SegmentationModel.__init__ (lines 49-53): self.model = model, nothing is validated
SegmentationModelInit(cls, model) == [cls |-> cls, model |-> model]

Raise(e) ==
    /\ pc' = "raised"
    /\ err' = e

\* line 231: model_group = SegmentationBackend(model_group)
ResolveBackend ==
    /\ pc = "resolve"
    /\ IF args.model_group \in SegmentationBackend
       THEN pc' = "construct" /\ err' = err
       ELSE Raise("ValueError: model_group")
    /\ UNCHANGED <<args, data, data0, segmentation_model, tiles, raw, crops,
                   counter, i, img_segmented, calls>>
    /\ UNCHANGED cropsVars

\* variant of ConstructPlain: the blob backend checks its method name when it is
\* constructed
ConstructPlainValidating ==
    /\ pc = "construct"
    /\ args.model_group \in {BLOB, WATERSHED}
    /\ IF args.model_group = BLOB /\ args.model_instance \notin BlobMethods
       THEN /\ Raise("ValueError: self.model")
            /\ segmentation_model' = segmentation_model
       ELSE /\ segmentation_model' =
                  [cls |-> args.model_group, model |-> args.model_instance]
            /\ pc' = "crop"
            /\ err' = err
    /\ UNCHANGED <<args, data, data0, tiles, raw, crops, counter, i,
                   img_segmented, calls>>
    /\ UNCHANGED cropsVars

\* lines 233-236: the blob and watershed backends are constructed without a check
ConstructPlain ==
    /\ pc = "construct"
    /\ args.model_group \in {BLOB, WATERSHED}
    /\ segmentation_model' = SegmentationModelInit(args.model_group, args.model_instance)
    /\ pc' = "crop"
    /\ UNCHANGED <<args, data, data0, err, tiles, raw, crops, counter, i,
                   img_segmented, calls>>
    /\ UNCHANGED cropsVars

\* variant of TensorflowInit: the model's type is not asserted
TensorflowInitUnchecked(model, hasAttr) == "ok"

\* SegmentationModelPretrainedTensorflow.__init__ (lines 158-163): the assertion
\* evaluates tf.keras.model.Model; whether the installed tensorflow has that attribute
\* is the environment's choice (AttributeError when it has not)
TensorflowInit(model, hasAttr) ==
    IF ~hasAttr THEN "AttributeError"
    ELSE IF model # KerasModel THEN "AssertionError"
    ELSE "ok"

\* lines 237-238
ConstructTensorflow ==
    /\ pc = "construct"
    /\ args.model_group = TENSORFLOW
    /\ \E hasAttr \in BOOLEAN :
         LET r == TensorflowInit(args.model_instance, hasAttr) IN
           IF r = "ok"
           THEN /\ segmentation_model' =
                      SegmentationModelInit(TENSORFLOW, args.model_instance)
                /\ pc' = "crop"
                /\ err' = err
           ELSE /\ Raise(r)
                /\ segmentation_model' = segmentation_model
    /\ UNCHANGED <<args, data, data0, tiles, raw, crops, counter, i,
                   img_segmented, calls>>
    /\ UNCHANGED cropsVars

\* ImageContainer.crop_equally: k crops of layer img_id, in order
crop_equally(img_id, k) == [j \in 1..k |-> [layer |-> img_id, tile |-> j]]

\* line 242
CropEqually ==
    /\ pc = "crop"
    /\ \E k \in 1..MaxCrops : tiles' = crop_equally(args.img_id, k)
    /\ calls' = Append(calls, Call("crop_equally", 0, args.img_id))
    /\ pc' = "segment"
    /\ UNCHANGED <<args, data, data0, err, segmentation_model, raw, crops,
                   counter, i, img_segmented>>
    /\ UNCHANGED cropsVars

\* line 243
channel_slice == IF args.channel_idx = None THEN "all" ELSE args.channel_idx

\* variant of BlobRoutine: an unrecognised name falls back to blob_log
BlobRoutineDefaultLog(model) ==
    CASE model = "dog" -> "blob_dog"
      [] model = "doh" -> "blob_doh"
      [] OTHER         -> "blob_log"

\* SegmentationModelBlob._segment, lines 100-107: the routine self.model selects
BlobRoutine(model) ==
    CASE model = "log" -> "blob_log"
      [] model = "dog" -> "blob_dog"
      [] model = "doh" -> "blob_doh"
      [] OTHER         -> "raise"

\* the calls one backend invocation on crop j makes before its routine returns or
\* raises: segment() receives the crop data (line 71), then the routine is called
\* (blob: lines 97-105 on the negated image when invert; watershed: line 151;
\* tensorflow: line 181)
BackendCalls(j) ==
    LET m == segmentation_model IN
    <<Call("segment", j, channel_slice)>> \o
    (CASE m.cls = BLOB ->
            IF BlobRoutine(m.model) = "raise" THEN <<>>
            ELSE <<Call(BlobRoutine(m.model), j,
                        IF args.invert THEN "negated" ELSE "plain")>>
       [] m.cls = WATERSHED  -> <<Call("watershed", j, "plain")>>
       [] OTHER              -> <<Call("model", j, "plain")>>)

\* the blob backend was given a name it does not recognise (line 107)
BlobUnrecognized ==
    segmentation_model.cls = BLOB /\ BlobRoutine(segmentation_model.model) = "raise"

\* line 244, one element of the comprehension: the backend returns a label array
SegmentCrop ==
    /\ pc = "segment"
    /\ ~BlobUnrecognized
    /\ LET j == Len(raw) + 1 IN
         /\ calls' = calls \o BackendCalls(j)
         /\ \E out \in SegmentOutputs :
              /\ raw' = Append(raw, out)
              /\ crops' = Append(crops, out)
         /\ IF j = Len(tiles)
            THEN pc' = "reconcile" /\ counter' = 0 /\ i' = 1
            ELSE pc' = pc /\ counter' = counter /\ i' = i
    /\ UNCHANGED <<args, data, data0, err, segmentation_model, tiles, img_segmented>>
    /\ UNCHANGED cropsVars

\* variant of SegmentCropFails: the crops segmented so far are stitched and stored
\* although the backend raised
SegmentCropFailsCommits ==
    /\ pc = "segment"
    /\ ~BlobUnrecognized
    /\ calls' = calls \o BackendCalls(Len(raw) + 1)
    /\ err' = "Delegated"
    /\ pc' = "add"
    /\ UNCHANGED <<args, data, data0, segmentation_model, tiles, raw, crops,
                   counter, i, img_segmented>>
    /\ UNCHANGED cropsVars

\* line 244: the routine the backend delegates to raises; nothing catches it
SegmentCropFails ==
    /\ pc = "segment"
    /\ ~BlobUnrecognized
    /\ calls' = calls \o BackendCalls(Len(raw) + 1)
    /\ Raise("Delegated")
    /\ UNCHANGED <<args, data, data0, segmentation_model, tiles, raw, crops,
                   counter, i, img_segmented>>
    /\ UNCHANGED cropsVars

\* line 244 with lines 106-107: the blob backend does not recognise self.model
SegmentCropUnrecognized ==
    /\ pc = "segment"
    /\ BlobUnrecognized
    /\ calls' = calls \o BackendCalls(Len(raw) + 1)
    /\ Raise("ValueError: self.model")
    /\ UNCHANGED <<args, data, data0, segmentation_model, tiles, raw, crops,
                   counter, i, img_segmented>>
    /\ UNCHANGED cropsVars

\* np.max
Max(x) == CHOOSE m \in Range(x) : \A v \in Range(x) : m >= v

\* variant of Reconcile: the counter is added to every value, background included
ReconcileShiftAll(x, c) ==
    [crop    |-> [p \in DOMAIN x |-> x[p] + c],
     counter |-> c + Max(x)]

\* variant of Reconcile: the counter grows by the number of segment pixels
ReconcileCountPixels(x, c) ==
    [crop    |-> [p \in DOMAIN x |-> IF x[p] > 0 THEN x[p] + c ELSE x[p]],
     counter |-> c + Cardinality({p \in DOMAIN x : x[p] > 0})]

\* variant of Reconcile: the counter grows by the number of distinct labels
ReconcileCountLabels(x, c) ==
    [crop    |-> [p \in DOMAIN x |-> IF x[p] > 0 THEN x[p] + c ELSE x[p]],
     counter |-> c + Cardinality(Range(x) \ {0})]

\* lines 250-253 on one label array: num_segments is taken before the array is
\* changed in place; positive values get the counter added
Reconcile(x, c) ==
    [crop    |-> [p \in DOMAIN x |-> IF x[p] > 0 THEN x[p] + c ELSE x[p]],
     counter |-> c + Max(x)]

\* lines 249-254, one iteration
ReconcileCrop ==
    /\ pc = "reconcile"
    /\ i <= Len(crops)
    /\ LET r == Reconcile(crops[i], counter) IN
         /\ crops' = [crops EXCEPT ![i] = r.crop]
         /\ counter' = r.counter
    /\ i' = i + 1
    /\ pc' = IF i = Len(crops) THEN "stitch" ELSE pc
    /\ UNCHANGED <<args, data, data0, err, segmentation_model, tiles, raw,
                   img_segmented, calls>>
    /\ UNCHANGED cropsVars

\* squidpy.im.crop.uncrop_img: each crop's pixels placed at its origin
RECURSIVE uncrop_img(_)
uncrop_img(cs) == IF cs = <<>> THEN <<>> ELSE Head(cs) \o uncrop_img(Tail(cs))

\* line 256
Uncrop ==
    /\ pc = "stitch"
    /\ img_segmented' = uncrop_img(crops)
    /\ calls' = Append(calls, Call("uncrop_img", 0, "mask"))
    /\ pc' = "add"
    /\ UNCHANGED <<args, data, data0, err, segmentation_model, tiles, raw, crops,
                   counter, i>>
    /\ UNCHANGED cropsVars

\* variant of OutputName: key_added is ignored
OutputNameDefault(model_group, key_added) == "segmented_" \o model_group

\* line 257
OutputName(model_group, key_added) ==
    IF key_added = None THEN "segmented_" \o model_group ELSE key_added

\* ImageContainer.add_img: the layer is stored under img_id
add_img(d, img, img_id) == [d EXCEPT ![img_id] = LabelLayer(img)]

\* lines 257-258
AddImg ==
    /\ pc = "add"
    /\ LET img_id == OutputName(args.model_group, args.key_added) IN
         /\ data' = add_img(data, img_segmented, img_id)
         /\ calls' = Append(calls, Call("add_img", 0, img_id))
    /\ pc' = "done"
    /\ UNCHANGED <<args, data0, err, segmentation_model, tiles, raw, crops,
                   counter, i, img_segmented>>
    /\ UNCHANGED cropsVars

Next ==
    \/ ResolveBackend
    \/ ConstructPlain
    \/ ConstructTensorflow
    \/ CropEqually
    \/ SegmentCrop
    \/ SegmentCropFails
    \/ SegmentCropUnrecognized
    \/ ReconcileCrop
    \/ Uncrop
    \/ AddImg

Spec == Init /\ [][Next]_vars

----------------------------------------------------------------------------
(* The reconciliation loop on arbitrary label arrays: segment() at line 248,  *)
(* the backend having returned any non-negative label array for each crop.    *)

\* the calls segment() has made when it reaches line 248 with k crops
RECURSIVE CallsBeforeReconcile(_)
CallsBeforeReconcile(k) ==
    IF k = 0 THEN <<Call("crop_equally", 0, "image")>>
    ELSE CallsBeforeReconcile(k - 1) \o
         <<Call("segment", k, "all"), Call("watershed", k, "plain")>>

InitRec ==
    /\ args = [model_group |-> WATERSHED, model_instance |-> None, invert |-> TRUE,
               channel_idx |-> None, key_added |-> None, img_id |-> "image"]
    /\ data \in {d \in Containers : d["seg"] = Absent}
    /\ data0 = data
    /\ pc = "reconcile"
    /\ err = "none"
    /\ segmentation_model = SegmentationModelInit(WATERSHED, None)
    /\ \E k \in 1..MaxRecCrops :
         /\ tiles = crop_equally("image", k)
         /\ raw \in [1..k -> LabelArrays]
         /\ calls = CallsBeforeReconcile(k)
    /\ crops = raw
    /\ counter = 0
    /\ i = 1
    /\ img_segmented = <<>>
    /\ segmented = <<>>
    /\ returned = <<>>
    /\ scpc = "unused"

NextRec == ReconcileCrop

SpecRec == InitRec /\ [][NextRec]_vars

----------------------------------------------------------------------------
(* segment_crops(), lines 285-292 *)

Pixels == (0..(ImgRows - 1)) \X (0..(ImgCols - 1))

\* the finished label arrays: rows x cols, 0 = background
LabelImages == [Pixels -> 0..MaxLabel]

\* np.unique(img.data[segmented_img_id]) as a set
Unique(img) == {img[p] : p \in Pixels}

\* np.sort of a set of integers: ascending
RECURSIVE Sort(_)
Sort(S) ==
    IF S = {} THEN <<>>
    ELSE LET m == CHOOSE v \in S : \A w \in S : v <= w
         IN  <<m>> \o Sort(S \ {m})

\* variant of SegmentLabels: np.sort left out, the set listed in descending order
SegmentLabelsUnsorted(img) ==
    LET s == Sort(Unique(img) \ {0})
    IN  [k \in 1..Len(s) |-> s[Len(s) + 1 - k]]

\* line 290: np.sort(list(set(np.unique(...)) - {0}))
SegmentLabels(img) == Sort(Unique(img) \ {0})

\* np.where(img.data[segmented_img_id] == l): the pixels that carry label l
Where(img, l) == {p \in Pixels : img[p] = l}

\* the sum of index axis (1 = rows, 2 = columns) over a set of pixels
RECURSIVE IndexSum(_, _)
IndexSum(P, axis) ==
    IF P = {} THEN 0
    ELSE LET p == CHOOSE q \in P : TRUE
         IN  p[axis] + IndexSum(P \ {p}, axis)

\* np.mean of np.where(...)[axis - 1], as the fraction num / den
Mean(P, axis) == [num |-> IndexSum(P, axis), den |-> Cardinality(P)]

\* variant of int: round to the nearest integer, halves up
intRound(q) == (2 * q.num + q.den) \div (2 * q.den)

\* int() of a non-negative float: the fraction is cut off
int(q) == q.num \div q.den

\* lines 285-291 for one label, then the arguments of crop_center at line 292
CentreRequest(img, l) ==
    [x |-> int(Mean(Where(img, l), 1)),
     y |-> int(Mean(Where(img, l), 2)),
     label |-> l]

\* lines 285-292: one crop_center request per entry of segment_centres, in its order
SegmentCrops ==
    /\ scpc = "start"
    /\ LET ls == SegmentLabels(segmented) IN
         returned' = [k \in 1..Len(ls) |-> CentreRequest(segmented, ls[k])]
    /\ scpc' = "done"
    /\ UNCHANGED segmented
    /\ UNCHANGED segmentVars

InitCrops ==
    /\ args = [model_group |-> WATERSHED, model_instance |-> None, invert |-> TRUE,
               channel_idx |-> None, key_added |-> None, img_id |-> "image"]
    /\ data \in {d \in Containers : d["seg"] # Absent}
    /\ data0 = data
    /\ pc = "done"
    /\ err = "none"
    /\ segmentation_model = NoModel
    /\ tiles = <<>>
    /\ raw = <<>>
    /\ crops = <<>>
    /\ counter = 0
    /\ i = 0
    /\ img_segmented = <<>>
    /\ calls = <<>>
    /\ segmented \in LabelImages
    /\ returned = <<>>
    /\ scpc = "start"

NextCrops == SegmentCrops

SpecCrops == InitCrops /\ [][NextCrops]_vars

----------------------------------------------------------------------------
(* Properties of the reconciliation loop, checked under SpecRec *)

\* the largest value of a label array
LargestOf(x) == CHOOSE m \in Range(x) : \A p \in DOMAIN x : x[p] <= m

\* max(L_1) + ... + max(L_n)
RECURSIVE SumOfLargest(_, _)
SumOfLargest(ls, n) ==
    IF n = 0 THEN 0 ELSE SumOfLargest(ls, n - 1) + LargestOf(ls[n])

\* the positive labels of a label array
Positive(x) == {x[p] : p \in DOMAIN x} \ {0}

\* the positive labels are exactly 1..n for some n >= 0
IsDense(x) == Positive(x) = 1..Cardinality(Positive(x))

\* n_1 + ... + n_k, n_j the number of segments of the j-th array
RECURSIVE SegmentCount(_, _)
SegmentCount(ls, n) ==
    IF n = 0 THEN 0 ELSE SegmentCount(ls, n - 1) + Cardinality(Positive(ls[n]))

PairwiseDisjoint(ls) ==
    \A j, k \in 1..Len(ls) : j # k => Positive(ls[j]) \cap Positive(ls[k]) = {}

\* C1: every crop the loop has passed holds, for each positive value v the backend
\* returned, v plus the sum of max(L_j) over the crops before it, and 0 where the
\* backend returned 0; the crops not yet passed are as returned; the first crop is
\* never changed.
C1_LabelsOffsetBySumOfMax ==
    /\ Len(crops) = Len(raw)
    /\ \A j \in 1..Len(crops) : \A p \in DOMAIN raw[j] :
         crops[j][p] = IF j < i /\ raw[j][p] > 0
                       THEN raw[j][p] + SumOfLargest(raw, j - 1)
                       ELSE raw[j][p]
    /\ \A j \in 1..Len(crops) : \A p \in DOMAIN raw[j] :
         raw[j][p] = 0 => crops[j][p] = 0
    /\ crops[1] = raw[1]

\* C1 witness: crop A = (1, 2), crop B = (0, 1); after the loop A is unchanged and
\* B is (0, 3)
C1_Witness ==
    /\ pc = "stitch"
    /\ Len(raw) = 2
    /\ Positive(raw[1]) = {1, 2} /\ Range(raw[2]) = {0, 1}
    /\ crops[1] = raw[1]
    /\ Range(crops[2]) = {0, 3}

\* C2: when every crop's local labels are dense (1..n_i), after the loop the crops'
\* positive labels are pairwise disjoint and together are exactly 1..sum of n_i.
C2_DenseLabelsPartitionRange ==
    (pc = "stitch" /\ \A j \in 1..Len(raw) : IsDense(raw[j]))
        => /\ PairwiseDisjoint(crops)
           /\ UNION {Positive(crops[j]) : j \in 1..Len(crops)}
                  = 1..SegmentCount(raw, Len(raw))

\* C2 witness: two dense crops, each with segments, reconciled
C2_Witness ==
    /\ pc = "stitch"
    /\ Len(raw) = 2
    /\ \A j \in 1..2 : IsDense(raw[j]) /\ Positive(raw[j]) # {}
    /\ Cardinality(Positive(raw[1])) = 2

\* C3: over non-negative label arrays, gaps included, no iteration of the loop
\* lowers the counter, and once the loop has ended no positive label occurs in two
\* crops.
C3_CounterGrowsNoCollision ==
    [][ /\ counter' >= counter
        /\ pc' = "stitch" => PairwiseDisjoint(crops') ]_vars

\* C3 witness: the first crop's labels have a gap, the second crop has segments,
\* the loop has ended
C3_Witness ==
    /\ pc = "stitch"
    /\ Len(raw) = 2
    /\ ~IsDense(raw[1])
    /\ Positive(raw[2]) # {}
    /\ counter > LargestOf(raw[1])

----------------------------------------------------------------------------
(* Properties of segment(), checked under Spec *)

CallsOf(fn) == {k \in 1..Len(calls) : calls[k].fn = fn}

\* C4: when the backend fails on a crop, segment() ends with the container as it
\* was and without a call of add_img; add_img is called, and the container changed,
\* only after every crop was segmented, the loop has passed every crop and
\* uncrop_img was called.
C4_FailureLeavesContainer ==
    /\ err = "Delegated" => pc = "raised"
    /\ pc = "raised" => data = data0 /\ CallsOf("add_img") = {}
    /\ (CallsOf("add_img") # {} \/ data # data0) =>
          /\ err = "none"
          /\ Len(tiles) >= 1
          /\ Len(raw) = Len(tiles)
          /\ Cardinality(CallsOf("segment")) = Len(tiles)
          /\ i = Len(tiles) + 1
          /\ \E u \in CallsOf("uncrop_img") : \A a \in CallsOf("add_img") : u < a

\* C4 witness: of three crops the middle one failed
C4_Witness ==
    /\ err = "Delegated"
    /\ Len(tiles) = 3
    /\ Len(raw) = 1
    /\ Cardinality(CallsOf("segment")) = 2

BadSelector == args.model_group \notin {"blob", "watershed", "tensorflow"}

NotAModel == args.model_group = "tensorflow" /\ args.model_instance # KerasModel

\* C5: crop_equally is called only with the selector resolved and the backend
\* constructed; with an unrecognized selector, or the tensorflow backend given
\* something that is not a model, segment() ends with an error, no call made to
\* the container and the container as it was.
C5_BackendBeforeCrops ==
    /\ CallsOf("crop_equally") # {} =>
          /\ ~BadSelector /\ ~NotAModel
          /\ segmentation_model.cls = args.model_group
          /\ segmentation_model.model = args.model_instance
    /\ (BadSelector /\ pc # "resolve") =>
          pc = "raised" /\ calls = <<>> /\ tiles = <<>> /\ data = data0
    /\ (NotAModel /\ pc \notin {"resolve", "construct"}) =>
          pc = "raised" /\ calls = <<>> /\ tiles = <<>> /\ data = data0

\* C5 witness: the tensorflow backend was given a string and the assertion failed
C5_Witness ==
    /\ pc = "raised"
    /\ err = "AssertionError"
    /\ args.model_group = "tensorflow"
    /\ args.model_instance = "log"

BadBlobName ==
    args.model_group = "blob" /\ args.model_instance \notin {"log", "dog", "doh"}

\* C6: with the blob backend and a name other than log, dog, doh (None included),
\* no detection routine is ever called, and once a crop has been handed to the
\* backend segment() has ended with the unrecognized-method error; for invert true
\* and false.
C6_UnrecognizedBlobName ==
    BadBlobName =>
        /\ \A k \in 1..Len(calls) :
              calls[k].fn \notin {"blob_log", "blob_dog", "blob_doh"}
        /\ CallsOf("segment") # {} => pc = "raised" /\ err = "ValueError: self.model"
        /\ pc \in {"resolve", "construct", "crop", "segment", "raised"}
        /\ raw = <<>>

\* C6 witness: model_instance None, invert false, the error raised
C6_Witness ==
    /\ err = "ValueError: self.model"
    /\ args.model_instance = None
    /\ ~args.invert

\* C7 as stated: when the unrecognized-method error is raised, crop_equally has not
\* been called and no crop has been handed to a backend.
C7_Original ==
    err = "ValueError: self.model" =>
        CallsOf("crop_equally") = {} /\ CallsOf("segment") = {}

\* C7 amended: when the unrecognized-method error is raised, crop_equally has been
\* called once and the first crop, and only it, has been handed to the backend; no
\* detection routine was called, no label array exists and the container is as it
\* was.
C7_RaisedOnFirstCrop ==
    err = "ValueError: self.model" =>
        /\ Len(tiles) >= 1
        /\ Len(calls) = 2
        /\ calls[1].fn = "crop_equally"
        /\ calls[2].fn = "segment" /\ calls[2].tile = 1
        /\ raw = <<>> /\ crops = <<>>
        /\ data = data0

\* C7 witness: the error raised with three crops read from the container
C7_Witness ==
    /\ err = "ValueError: self.model"
    /\ Len(tiles) = 3
    /\ CallsOf("crop_equally") = {1}

ExpectedName ==
    IF args.key_added = None THEN "segmented_" \o args.model_group ELSE args.key_added

----------------------------------------------------------------------------
(* Properties of segment_crops(), checked under SpecCrops *)

NonzeroLabels == {segmented[p] : p \in DOMAIN segmented} \ {0}

PixelsOf(l) == {p \in DOMAIN segmented : segmented[p] = l}

\* the sum of the pixels' index along an axis, counted value by value
RECURSIVE IndexTotal(_, _, _)
IndexTotal(P, axis, v) ==
    IF v < 0 THEN 0
    ELSE v * Cardinality({p \in P : p[axis] = v}) + IndexTotal(P, axis, v - 1)

RowTotal(l) == IndexTotal(PixelsOf(l), 1, ImgRows + ImgCols)

ColTotal(l) == IndexTotal(PixelsOf(l), 2, ImgRows + ImgCols)

\* C8: segment_crops requests one crop per distinct nonzero label, in strictly
\* ascending order of the labels; label 0 gets no crop.
C8_OneCropPerLabelAscending ==
    scpc = "done" =>
        /\ Len(returned) = Cardinality(NonzeroLabels)
        /\ {returned[k].label : k \in 1..Len(returned)} = NonzeroLabels
        /\ \A k \in 1..Len(returned) : returned[k].label # 0
        /\ \A k \in 1..(Len(returned) - 1) : returned[k].label < returned[k + 1].label

\* C8 witness: an array with background and two labels, two crops returned
C8_Witness ==
    /\ scpc = "done"
    /\ 0 \in Range(segmented)
    /\ Cardinality(NonzeroLabels) = 2
    /\ Len(returned) = 2

\* C9 as stated: every crop is centred at a nearest integer of the mean row and of
\* the mean column of its label's pixels.
C9_Original ==
    scpc = "done" =>
        \A k \in 1..Len(returned) :
            LET r == returned[k]
                n == Cardinality(PixelsOf(r.label))
            IN  /\ 2 * r.x * n - 2 * RowTotal(r.label) \in (0 - n)..n
                /\ 2 * r.y * n - 2 * ColTotal(r.label) \in (0 - n)..n

\* C9 amended: every crop is centred at the mean row and mean column of its
\* label's pixels with the fraction cut off (the largest integers not above the
\* means); a label on a single pixel (r, c) is centred at (r, c).
C9_CentreIsTruncatedMean ==
    scpc = "done" =>
        \A k \in 1..Len(returned) :
            LET r == returned[k]
                n == Cardinality(PixelsOf(r.label))
            IN  /\ r.x * n <= RowTotal(r.label) /\ RowTotal(r.label) < (r.x + 1) * n
                /\ r.y * n <= ColTotal(r.label) /\ ColTotal(r.label) < (r.y + 1) * n
                /\ n = 1 => PixelsOf(r.label) = {<<r.x, r.y>>}

\* C9 witness: a label whose mean row lies more than one half above the requested
\* row, and a label on a single pixel
C9_Witness ==
    /\ scpc = "done"
    /\ \E k \in 1..Len(returned) :
         LET n == Cardinality(PixelsOf(returned[k].label))
         IN  2 * (RowTotal(returned[k].label) - returned[k].x * n) > n
    /\ \E k \in 1..Len(returned) : Cardinality(PixelsOf(returned[k].label)) = 1

====
